---- MODULE Spec2Model ----
(***************************************************************************)
(* A model of MultimodalWebSurferAgent                                     *)
(* (autogen/agentchat/contrib/multimodal_web_surfer/multimodal_web_surfer.py). *)
(* Strings the code inspects (URLs, content types) are sequences of        *)
(* one-character strings, so that startswith, "in", lower() and quote_plus *)
(* are computed character by character as the code computes them.          *)
(***************************************************************************)
EXTENDS Integers, Sequences, FiniteSets, TLC

VARIABLES
    phase,       \* "new" | "ready" | "ctor_raised": where construction stands
    cargs,       \* the constructor arguments browser_channel, browser_data_dir, start_page, navigation_allow_list
    start_page,  \* self.start_page
    allow,       \* self._navigation_allow_list
    context,     \* self._context: "unset" | "new_context" | "persistent"
    page,        \* self._page: the page handle held by the agent (0 = none)
    nPages,      \* number of pages the browser context has opened so far
    hist,        \* session history of the held page; its last entry is the page's URL
    blocked,     \* TRUE when the held page shows the "Navigation Blocked" document
    pageTop,     \* scroll offset of the held page
    base,        \* conversation state of the base agent: "fresh" | "used"
    route,       \* what the route handler did with the last request it intercepted
    turn         \* the last operation: its inputs, the calls it made in order, its result

vars == <<phase, cargs, start_page, allow, context, page, nPages, hist, blocked, pageTop, base, route, turn>>

-----------------------------------------------------------------------------
(* Bounds of the model *)

\* longest session history of one page that is explored
MaxHist == 2
\* most pages (the first page and popups) opened in one run
MaxPages == 2

-----------------------------------------------------------------------------
(* Program constants *)

VIEWPORT_HEIGHT == 900

DEFAULT_START_PAGE == <<"h", "t", "t", "p", "s", ":", "/", "/", "w", "w", "w", ".", "b", "i", "n", "g", ".", "c", "o", "m", "/">>

\* the sentinel object of the constructor
DEFAULT_CHANNEL == "<DEFAULT_CHANNEL>"

\* Python's None
None == "<None>"

\* token_limit of _summarize_page and the room it leaves for the summary
TokenLimit == 100000
SummaryRoom == 1024

SearchPrefix == <<"h", "t", "t", "p", "s", ":", "/", "/", "w", "w", "w", ".", "b", "i", "n", "g", ".", "c", "o", "m", "/", "s", "e", "a", "r", "c", "h", "?", "q", "=">>
SearchSuffix == <<"&", "F", "O", "R", "M", "=", "Q", "B", "L", "H">>
P_https == <<"h", "t", "t", "p", "s", ":", "/", "/">>
P_http == <<"h", "t", "t", "p", ":", "/", "/">>
P_file == <<"f", "i", "l", "e", ":", "/", "/">>
P_about == <<"a", "b", "o", "u", "t", ":">>
AboutBlank == <<"a", "b", "o", "u", "t", ":", "b", "l", "a", "n", "k">>
HtmlWord == <<"h", "t", "m", "l">>

-----------------------------------------------------------------------------
(* Python string operations *)

\* s.startswith(p)
StartsWith(s, p) == Len(p) <= Len(s) /\ SubSeq(s, 1, Len(p)) = p

\* sub in s
Contains(s, sub) == \E i \in 1..(Len(s) - Len(sub) + 1) : SubSeq(s, i, i + Len(sub) - 1) = sub

UpperCase == {"T", "E", "X", "H", "M", "L"}
LowerOf == [c \in UpperCase |-> CASE c = "T" -> "t" [] c = "E" -> "e" [] c = "X" -> "x"
                                  [] c = "H" -> "h" [] c = "M" -> "m" [] c = "L" -> "l"]

\* s.lower()
Lower(s) == [i \in 1..Len(s) |-> IF s[i] \in UpperCase THEN LowerOf[s[i]] ELSE s[i]]

\* characters urllib's quote leaves alone (letters, digits and "_.-~"), as far as the model's alphabet goes
QuoteSafe == {"a", "b", "c", "h", "t", "p", "s", "w", "i", "n", "g", "o", "m", "f", "l", "e", "u", "k", "."}
PercentOf == [c \in {"+", "/", ":", "?", "&", "="} |->
                 CASE c = "+" -> <<"%", "2", "B">> [] c = "/" -> <<"%", "2", "F">>
                   [] c = ":" -> <<"%", "3", "A">> [] c = "?" -> <<"%", "3", "F">>
                   [] c = "&" -> <<"%", "2", "6">> [] c = "=" -> <<"%", "3", "D">>]

RECURSIVE quote_plus(_)
\* urllib.parse.quote_plus: a space becomes "+", unsafe characters are percent-encoded
quote_plus(s) ==
    IF s = <<>> THEN <<>>
    ELSE (IF Head(s) = " " THEN <<"+">>
          ELSE IF Head(s) \in QuoteSafe THEN <<Head(s)>>
          ELSE PercentOf[Head(s)]) \o quote_plus(Tail(s))

-----------------------------------------------------------------------------
(* The navigation allow list and the route handler *)

\* a URL-typed argument that was not given
NoneUrl == <<"<None>">>

\* A callable navigation_allow_list is one of "accept_all" (the default lambda) and
\* "reject_all".
\* (mutant) entries are compared for equality
ClosureExact(entries, url) == \E i \in 1..Len(entries) : url = entries[i]

\* _closure(url) over a list-valued navigation_allow_list
Closure(entries, url) == \E i \in 1..Len(entries) : StartsWith(url, entries[i])

\* self._navigation_allow_list(url)
NavigationAllowList(al, url) ==
    IF al.kind = "list" THEN Closure(al.entries, url) ELSE al.fn = "accept_all"

\* the condition under which _route_handler lets a request continue
RouteContinues(al, url) == url = AboutBlank \/ NavigationAllowList(al, url)

\* "html" in response.headers.get("content-type", "").lower()
IsHtmlResponse(ctype) == Contains(Lower(ctype), HtmlWord)

\* _route_handler(route): the calls made on the route and what reaches the page
RouteHandler(al, sp, url, ctype) ==
    IF RouteContinues(al, url)
    THEN [request |-> url, content_type |-> ctype, calls |-> <<"continue_">>,
          delivered |-> "original", status |-> 0, link |-> NoneUrl]
    ELSE IF IsHtmlResponse(ctype)
         THEN [request |-> url, content_type |-> ctype, calls |-> <<"fetch", "fulfill">>,
               delivered |-> "blocked_page", status |-> 403, link |-> sp]
         ELSE [request |-> url, content_type |-> ctype, calls |-> <<"fetch", "fulfill">>,
               delivered |-> "fetched", status |-> 0, link |-> NoneUrl]

NoRoute == [request |-> NoneUrl, content_type |-> <<>>, calls |-> <<>>,
            delivered |-> "none", status |-> 0, link |-> NoneUrl]

-----------------------------------------------------------------------------
(* The web the browser is pointed at: a small fixed set of documents *)

SiteA == <<"h", "t", "t", "p", "s", ":", "/", "/", "a">>
SiteB == <<"h", "t", "t", "p", "s", ":", "/", "/", "b">>
CT_html == <<"t", "e", "x", "t", "/", "h", "t", "m", "l">>
CT_HTML == <<"T", "E", "X", "T", "/", "H", "T", "M", "L">>
CT_png == <<"i", "m", "a", "g", "e", "/", "p", "n", "g">>
CT_xhtml == <<"a", "p", "p", "l", "i", "c", "a", "t", "i", "o", "n", "/", "x", "h", "t", "m", "l", "+", "x", "m", "l">>

IsBing(url) == StartsWith(url, DEFAULT_START_PAGE)

\* content type of the response to a request for url
ContentTypeOf(url) == IF StartsWith(url, P_file) THEN CT_png ELSE CT_html

\* document.scrollHeight of the document shown for url
ScrollHeightOf(url, blk) ==
    CASE blk -> 900
      [] ~blk /\ url = SiteA -> 2000
      [] ~blk /\ url = SiteB -> 906
      [] ~blk /\ IsBing(url) -> 900
      [] ~blk /\ url = AboutBlank -> 900
      [] OTHER -> 905

Element(id, role, top, scrollable, fillable, name, href, popup) ==
    [id |-> id, role |-> role, top |-> top, v_scrollable |-> scrollable, fillable |-> fillable,
     aria_name |-> name, href |-> href, popup |-> popup]

\* the interactive elements of the document shown for url (sp: the start page the
\* "Navigation Blocked" document links to)
ElementsOf(url, blk, sp) ==
    CASE blk -> {Element("1", "link", 60, FALSE, FALSE, "", sp, NoneUrl)}
      [] ~blk /\ url = SiteA ->
            {Element("1", "link", 100, FALSE, FALSE, "next", SiteB, NoneUrl),
             Element("2", "textbox", 200, FALSE, TRUE, "", NoneUrl, NoneUrl),
             Element("3", "region", 1000, TRUE, FALSE, "list", NoneUrl, NoneUrl),
             Element("4", "link", 300, FALSE, FALSE, "new tab", NoneUrl, SiteB)}
      [] ~blk /\ IsBing(url) ->
            {Element("2", "searchbox", 100, FALSE, TRUE, "query", NoneUrl, NoneUrl)}
      [] OTHER -> {}

\* the page's text as markdown, one entry per line: the line's token count
TextOf(url, blk) ==
    CASE blk -> <<12>>
      [] ~blk /\ url = SiteA -> <<10, 20>>
      [] ~blk /\ url = SiteB -> <<99000, 5>>
      [] ~blk /\ IsBing(url) -> <<60000, 50000>>
      [] ~blk /\ url = AboutBlank -> <<>>
      [] OTHER -> <<7>>

-----------------------------------------------------------------------------
(* The browser as the agent sees it.  b = [page, nPages, hist, blocked, pageTop, route] *)

Url(b) == b.hist[Len(b.hist)]

Min(x, y) == IF x < y THEN x ELSE y
Max(x, y) == IF x > y THEN x ELSE y

\* MultimodalWebSurfer.getVisualViewport()
GetVisualViewport(b) ==
    [pageTop |-> b.pageTop, height |-> VIEWPORT_HEIGHT,
     scrollHeight |-> ScrollHeightOf(Url(b), b.blocked)]

\* MultimodalWebSurfer.getInteractiveRects(): the elements keyed by __elementId
GetInteractiveRects(b, sp) == ElementsOf(Url(b), b.blocked, sp)

\* the rects add_set_of_mark reports as visible: those inside the viewport
VisibleRects(b, sp) ==
    {e \in GetInteractiveRects(b, sp) : b.pageTop <= e.top /\ e.top < b.pageTop + VIEWPORT_HEIGHT}

\* self._page.screenshot(): what the picture shows, and the position at in the sequence of
\* calls of the turn at which it was taken
Screenshot(b, at) ==
    [page |-> b.page, url |-> Url(b), blocked |-> b.blocked, pageTop |-> b.pageTop, at |-> at]

\* self._page.goto(url): the request for the document passes through the route handler
Goto(b, al, sp, url) ==
    LET r == RouteHandler(al, sp, url, ContentTypeOf(url))
    IN  [b EXCEPT !.hist = Append(b.hist, url), !.blocked = (r.delivered = "blocked_page"),
                  !.pageTop = 0, !.route = r]

\* self._page.go_back(): nothing happens on the first entry of the history
GoBack(b, al, sp) ==
    IF Len(b.hist) <= 1 THEN b
    ELSE LET h == SubSeq(b.hist, 1, Len(b.hist) - 1)
             r == RouteHandler(al, sp, h[Len(h)], ContentTypeOf(h[Len(h)]))
         IN  [b EXCEPT !.hist = h, !.blocked = (r.delivered = "blocked_page"),
                       !.pageTop = 0, !.route = r]

\* window.scrollBy(0, dy)
ScrollBy(b, dy) ==
    LET top == ScrollHeightOf(Url(b), b.blocked) - VIEWPORT_HEIGHT
    IN  [b EXCEPT !.pageTop = Max(0, Min(top, b.pageTop + dy))]

-----------------------------------------------------------------------------
(* The agent's browser operations.  Each yields the browser after it, the calls *)
(* it made in order, and the exception it ended with ("none" when it returned). *)

Ok(b, log, desc) == [b |-> b, log |-> log, exc |-> "none", msg |-> <<>>, desc |-> desc]
Raise(b, log, exc, msg) == [b |-> b, log |-> log, exc |-> exc, msg |-> msg, desc |-> ""]

\* _visit_page(url)
VisitPage(b, al, sp, url) == Ok(Goto(b, al, sp, url), <<"goto">>, "")

\* _back()
Back(b, al, sp) == Ok(GoBack(b, al, sp), <<"go_back">>, "")

\* _page_down()
PageDown(b) == Ok(ScrollBy(b, VIEWPORT_HEIGHT - 50), <<"scroll_by">>, "")

\* _page_up()
PageUp(b) == Ok(ScrollBy(b, 0 - (VIEWPORT_HEIGHT - 50)), <<"scroll_by">>, "")

\* _on_new_page(page): the popup becomes the page the agent holds
OnNewPage(b, url) ==
    [b EXCEPT !.page = b.nPages + 1, !.nPages = b.nPages + 1, !.hist = <<url>>,
              !.blocked = FALSE, !.pageTop = 0]

\* the element target = self._page.locator("[__elementId='identifier']") resolves to
Located(b, sp, identifier) == {e \in GetInteractiveRects(b, sp) : e.id = identifier}

\* (mutant) the TimeoutError of wait_for is not translated
NoSuchElementTimeout(b) == Raise(b, <<"locator", "wait_for">>, "TimeoutError", <<>>)

\* target.wait_for(timeout=100) timed out: raise ValueError("No such element.")
NoSuchElement(b) == Raise(b, <<"locator", "wait_for">>, "ValueError", <<"No such element.">>)

\* what the browser does with a mouse click at the centre of e's bounding box
MouseClick(b, al, sp, e) ==
    IF ~(b.pageTop <= e.top /\ e.top < b.pageTop + VIEWPORT_HEIGHT) THEN b
    ELSE IF e.popup # NoneUrl THEN OnNewPage(b, e.popup)
    ELSE IF e.href # NoneUrl THEN Goto(b, al, sp, e.href)
    ELSE b

\* the click of _click_id on the element e that was found
ClickElement(b, al, sp, e) ==
    Ok(MouseClick(b, al, sp, e),
       <<"locator", "wait_for", "bounding_box", "mouse_click">>
           \o (IF (b.pageTop <= e.top /\ e.top < b.pageTop + VIEWPORT_HEIGHT) /\ e.popup # NoneUrl
               THEN <<"on_new_page">> ELSE <<>>), "")

\* _click_id on the elements the locator resolved to
ClickFound(b, al, sp, found) ==
    IF found = {} THEN NoSuchElement(b)
    ELSE ClickElement(b, al, sp, CHOOSE x \in found : TRUE)

\* _click_id(identifier)
ClickId(b, al, sp, identifier) == ClickFound(b, al, sp, Located(b, sp, identifier))

\* the focus, fill and Enter of _fill_id on the element e that was found; fill raises
\* on an element that takes no text
FillElement(b, e) ==
    IF e.fillable
    THEN Ok(b, <<"locator", "wait_for", "focus", "fill", "press_enter">>, "")
    ELSE Raise(b, <<"locator", "wait_for", "focus", "fill">>, "Error", <<>>)

\* _fill_id on the elements the locator resolved to
FillFound(b, found) ==
    IF found = {} THEN NoSuchElement(b)
    ELSE FillElement(b, CHOOSE x \in found : TRUE)

\* _fill_id(identifier, value)
FillId(b, sp, identifier) == FillFound(b, Located(b, sp, identifier))

\* _scroll_id(identifier, direction): one evaluate call, whether or not the element exists
ScrollId(b, identifier, direction) == Ok(b, <<"scroll_element">>, "")

RECURSIVE Budgeted(_, _)
\* the lines of the page text _summarize_page keeps: it stops at the first line with
\* which the buffer would leave less than 1024 tokens of the limit
Budgeted(lines, used) ==
    IF lines = <<>> THEN <<>>
    ELSE IF used + Head(lines) + SummaryRoom > TokenLimit THEN <<>>
    ELSE <<Head(lines)>> \o Budgeted(Tail(lines), used + Head(lines))

\* (mutant) the check for an empty buffer is missing
SummarizePageAlways(b) ==
    Ok(b, <<"get_page_markdown", "title", "screenshot", "create">>, "summary")

\* _summarize_page(question)
SummarizePage(b) ==
    IF Budgeted(TextOf(Url(b), b.blocked), 0) = <<>>
    THEN Ok(b, <<"get_page_markdown">>, "Nothing to summarize.")
    ELSE Ok(b, <<"get_page_markdown", "title", "screenshot", "create">>, "summary")

-----------------------------------------------------------------------------
(* generate_surfer_reply *)

\* the tools the dispatch knows, by function name
KnownTools == {"visit_url", "history_back", "web_search", "page_up", "page_down", "click",
               "input_text", "scroll_element_up", "scroll_element_down", "answer_question",
               "summarize_page"}

\* (mutant) the margin of 5 pixels is forgotten
CanPageUpNoMargin(viewport) == viewport.pageTop > 0

\* viewport["pageTop"] > 5
CanPageUp(viewport) == viewport.pageTop > 5

\* (viewport["pageTop"] + viewport["height"] + 5) < viewport["scrollHeight"]
CanPageDown(viewport) == viewport.pageTop + viewport.height + 5 < viewport.scrollHeight

\* (mutant) the loop runs over every rect of the page, visible or not
HasScrollableElementsAnywhere(visible, rects) == \E r \in rects : r.v_scrollable

\* has_scrollable_elements after the loop over visible_rects
HasScrollableElements(visible, rects) == \E r \in visible : r \in rects /\ r.v_scrollable

\* the list tools handed to the model
OfferedTools(al, viewport, visible, rects) ==
    <<"visit_url", "history_back", "click", "input_text", "summarize_page", "answer_question">>
    \o (IF NavigationAllowList(al, DEFAULT_START_PAGE) THEN <<"web_search">> ELSE <<>>)
    \o (IF CanPageUp(viewport) THEN <<"page_up">> ELSE <<>>)
    \o (IF CanPageDown(viewport) THEN <<"page_down">> ELSE <<>>)
    \o (IF HasScrollableElements(visible, rects)
        THEN <<"scroll_element_up", "scroll_element_down">> ELSE <<>>)

\* (mutant) the test for a space comes before the test for a protocol
ResolveUrlSpaceFirst(url) ==
    IF Contains(url, <<" ">>)
    THEN SearchPrefix \o quote_plus(url) \o SearchSuffix
    ELSE IF StartsWith(url, P_https) \/ StartsWith(url, P_http) \/ StartsWith(url, P_file)
            \/ StartsWith(url, P_about)
    THEN url
    ELSE P_https \o url

\* the address visit_url navigates to
ResolveUrl(url) ==
    IF StartsWith(url, P_https) \/ StartsWith(url, P_http) \/ StartsWith(url, P_file)
       \/ StartsWith(url, P_about)
    THEN url
    ELSE IF Contains(url, <<" ">>)
    THEN SearchPrefix \o quote_plus(url) \o SearchSuffix
    ELSE P_https \o url

\* the address web_search navigates to
SearchUrl(query) == SearchPrefix \o quote_plus(query) \o SearchSuffix

\* (mutant) every tool call of the message is dispatched
CallsToDispatchAll(tool_calls) == tool_calls

\* the tool calls of the model's message that are dispatched: only the first
CallsToDispatch(tool_calls) == IF tool_calls = <<>> THEN <<>> ELSE <<tool_calls[1]>>

\* The arguments string of a tool call is one of: "object" (a JSON object holding the
\* tool's parameters), "empty" (the JSON object {}), "null", "number" (a JSON number)
\* and "malformed" (not JSON).  str(args.get(key)) of a missing key is "None".
ArgUrl(call) == call.url
ArgId(call) == IF call.kind = "empty" THEN "None" ELSE call.id

\* action_description of a branch whose browser call returned
Described(r, text) == [r EXCEPT !.desc = IF r.exc = "none" THEN text ELSE @]

\* (mutant) the dispatch has no else branch: an unknown name does nothing
UnknownToolIgnored(b, name) == Ok(b, <<>>, "")

\* the else branch of the dispatch: raise ValueError("Unknown tool '" + name + "'")
UnknownTool(b, name) == Raise(b, <<>>, "ValueError", <<"Unknown tool", name>>)

\* the branch of the dispatch for tool call `call`, after json.loads and _log_to_console
Branch(b, al, sp, call) ==
    LET name == call.name
        noArgs == name \in {"history_back", "page_up", "page_down", "summarize_page"}
    IN  IF name \notin KnownTools
        THEN UnknownTool(b, name)
        ELSE IF ~noArgs /\ call.kind = "null"
        THEN Raise(b, <<>>, "AttributeError", <<>>)
        ELSE CASE name = "visit_url" ->
                    IF call.kind = "empty" THEN Raise(b, <<>>, "AttributeError", <<>>)
                    ELSE Described(VisitPage(b, al, sp, ResolveUrl(ArgUrl(call))), "I typed the url into the browser address bar.")
               [] name = "history_back" -> Described(Back(b, al, sp), "I clicked the browser back button.")
               [] name = "web_search" ->
                    IF call.kind = "empty" THEN Raise(b, <<>>, "TypeError", <<>>)
                    ELSE Described(VisitPage(b, al, sp, SearchUrl(ArgUrl(call))), "I typed the query into the browser search bar.")
               [] name = "page_up" -> Described(PageUp(b), "I scrolled up one page in the browser.")
               [] name = "page_down" -> Described(PageDown(b), "I scrolled down one page in the browser.")
               [] name = "click" -> Described(ClickId(b, al, sp, ArgId(call)), "I clicked the control.")
               [] name = "input_text" -> Described(FillId(b, sp, ArgId(call)), "I input the text.")
               [] name = "scroll_element_up" -> Described(ScrollId(b, ArgId(call), "up"), "I scrolled the control up.")
               [] name = "scroll_element_down" -> Described(ScrollId(b, ArgId(call), "down"), "I scrolled the control down.")
               [] name = "answer_question" -> SummarizePage(b)
               [] name = "summarize_page" -> SummarizePage(b)

\* the calls made for a tool call before its branch ran, put in front of the branch's
Logged(r, name) == [r EXCEPT !.log = <<"json_loads", "log_to_console", "dispatch", name>> \o @]

\* one tool call: json.loads of the arguments, _log_to_console, then the branch
DispatchCall(b, al, sp, call) ==
    IF call.kind = "malformed"
    THEN Raise(b, <<"json_loads">>, "ValueError", <<"JSONDecodeError">>)
    ELSE IF call.kind = "number"
    THEN Raise(b, <<"json_loads", "log_to_console">>, "TypeError", <<>>)
    ELSE Logged(Branch(b, al, sp, call), call.name)

\* the calls of r, put in front of those of what followed it
Joined(r, s) == [s EXCEPT !.log = r.log \o @]

RECURSIVE DispatchAll(_, _, _, _)
RECURSIVE DispatchRest(_, _, _, _)
\* the try block: the selected calls in order, until one raises
DispatchAll(b, al, sp, calls) ==
    IF calls = <<>> THEN Ok(b, <<>>, "")
    ELSE DispatchRest(DispatchCall(b, al, sp, Head(calls)), al, sp, Tail(calls))

\* the selected calls that follow one whose result is r
DispatchRest(r, al, sp, calls) ==
    IF r.exc # "none" \/ calls = <<>> THEN r
    ELSE Joined(r, DispatchAll(r.b, al, sp, calls))

\* percent_visible and percent_scrolled: int(x * 100 / scrollHeight)
Percent(x, viewport) == (x * 100) \div viewport.scrollHeight

\* (mutant) the bottom of the page is tested before the top
PositionTextBottomFirst(viewport) ==
    LET percent_visible == Percent(viewport.height, viewport)
        percent_scrolled == Percent(viewport.pageTop, viewport)
    IN  IF percent_scrolled + percent_visible >= 99
        THEN [text |-> "at the bottom of the page", percent |-> 0]
        ELSE IF percent_scrolled < 1 THEN [text |-> "at the top of the page", percent |-> 0]
        ELSE [text |-> "% down from the top of the page", percent |-> percent_scrolled]

\* position_text
PositionText(viewport) ==
    LET percent_visible == Percent(viewport.height, viewport)
        percent_scrolled == Percent(viewport.pageTop, viewport)
    IN  IF percent_scrolled < 1 THEN [text |-> "at the top of the page", percent |-> 0]
        ELSE IF percent_scrolled + percent_visible >= 99
        THEN [text |-> "at the bottom of the page", percent |-> 0]
        ELSE [text |-> "% down from the top of the page", percent |-> percent_scrolled]

NoShot == [page |-> 0, url |-> NoneUrl, blocked |-> FALSE, pageTop |-> 0, at |-> 0]
NoViewport == [pageTop |-> 0, height |-> 0, scrollHeight |-> 0]
NoPosition == [text |-> "", percent |-> 0]
NoReply == [kind |-> "none", text |-> <<>>, desc |-> "", percent_visible |-> 0,
            position |-> NoPosition, image |-> NoShot]

\* the held page as an operation found it
Snap(b) == [page |-> b.page, hist |-> b.hist, blocked |-> b.blocked, pageTop |-> b.pageTop]
NoSnap == [page |-> 0, hist |-> <<>>, blocked |-> FALSE, pageTop |-> 0]

\* the record kept of an operation
Record(op, tool_calls, viewport, tools, log, outcome, exc, reply) ==
    [op |-> op, tool_calls |-> tool_calls, viewport |-> viewport, tools |-> tools, log |-> log,
     outcome |-> outcome, exc |-> exc, reply |-> reply, before |-> NoSnap]

\* the except ValueError clause: the reply is str(e)
ValueErrorReply(msg) == [NoReply EXCEPT !.kind = "str", !.text = msg]

\* the record of a turn that ended with the observation o
Observed(rec, o) == [rec EXCEPT !.log = o.log, !.reply = o.reply]

\* (mutant) the reply carries the screenshot taken for the prompt
ObserveStale(b, log, desc, som) ==
    LET viewport == GetVisualViewport(b)
    IN  [log |-> log \o <<"wait_for_load_state", "get_visual_viewport", "return">>,
         reply |-> [kind |-> "mm", text |-> <<>>, desc |-> desc,
                    percent_visible |-> Percent(viewport.height, viewport),
                    position |-> PositionText(viewport), image |-> som]]

\* after the try block: wait for the page to load, describe the viewport, take the
\* new screenshot and build the multimodal reply (som: the screenshot of the prompt)
Observe(b, log, desc, som) ==
    LET viewport == GetVisualViewport(b)
        calls == log \o <<"wait_for_load_state", "get_visual_viewport", "screenshot">>
        new_screenshot == Screenshot(b, Len(calls))
    IN  [log |-> calls \o <<"return">>,
         reply |-> [kind |-> "mm", text |-> <<>>, desc |-> desc,
                    percent_visible |-> Percent(viewport.height, viewport),
                    position |-> PositionText(viewport), image |-> new_screenshot]]

\* the return of generate_surfer_reply once the try block ended with d: the except
\* clause, an exception passed on, or the observation of the page
Conclude(tool_calls, viewport, tools, som, d) ==
    IF d.exc = "ValueError"
    THEN [b |-> d.b,
          turn |-> Record("generate_surfer_reply", tool_calls, viewport, tools,
                          <<"get_interactive_rects", "get_visual_viewport", "screenshot", "create">>
                              \o d.log \o <<"return">>,
                          "returned", d.exc, ValueErrorReply(d.msg))]
    ELSE IF d.exc # "none"
    THEN [b |-> d.b,
          turn |-> Record("generate_surfer_reply", tool_calls, viewport, tools,
                          <<"get_interactive_rects", "get_visual_viewport", "screenshot", "create">>
                              \o d.log,
                          "raised", d.exc, NoReply)]
    ELSE [b |-> d.b,
          turn |-> Observed(Record("generate_surfer_reply", tool_calls, viewport, tools, <<>>,
                                   "returned", "none", NoReply),
                            Observe(d.b,
                                    <<"get_interactive_rects", "get_visual_viewport", "screenshot", "create">>
                                        \o d.log,
                                    d.desc, som))]

\* generate_surfer_reply on browser b with the model answering with tool_calls
SurferReply(b, al, sp, tool_calls) ==
    Conclude(tool_calls, GetVisualViewport(b),
             OfferedTools(al, GetVisualViewport(b), VisibleRects(b, sp), GetInteractiveRects(b, sp)),
             Screenshot(b, 3),
             DispatchAll(b, al, sp, CallsToDispatch(tool_calls)))

-----------------------------------------------------------------------------
(* __init__ and reset *)

AllowArg(kind, fn, entries) == [kind |-> kind, fn |-> fn, entries |-> entries]

NoBrowser == [page |-> 0, nPages |-> 0, hist |-> <<>>, blocked |-> FALSE, pageTop |-> 0,
              route |-> NoRoute]

\* self.start_page = start_page or self.DEFAULT_START_PAGE
StartPageOf(arg) == IF arg = NoneUrl \/ arg = <<>> THEN DEFAULT_START_PAGE ELSE arg

\* the context the constructor ends up with, or the exception it raises on the way
CreateContext(browser_channel, browser_data_dir) ==
    IF browser_data_dir = None
    THEN IF browser_channel \in {"chromium", "firefox"}
         THEN [context |-> "new_context", exc |-> "none"]
         ELSE [context |-> "unset", exc |-> "NotImplementedError"]
    ELSE IF browser_channel \in {"chromium", "firefox"}
         THEN [context |-> "persistent", exc |-> "none"]
         ELSE [context |-> "unset", exc |-> "AttributeError"]

\* __init__: the agent's fields when it returns or raises
Init__(browser_channel, browser_data_dir, start_page_arg, navigation_allow_list) ==
    LET sp == StartPageOf(start_page_arg)
        c == CreateContext(browser_channel, browser_data_dir)
        first == [NoBrowser EXCEPT !.page = 1, !.nPages = 1]
    IN  IF c.exc # "none"
        THEN [phase |-> "ctor_raised", start_page |-> sp, allow |-> navigation_allow_list,
              context |-> c.context, b |-> NoBrowser,
              log |-> <<"sync_playwright_start">>, exc |-> c.exc]
        ELSE [phase |-> "ready", start_page |-> sp, allow |-> navigation_allow_list,
              context |-> c.context, b |-> Goto(first, navigation_allow_list, sp, sp),
              log |-> <<"sync_playwright_start", "launch", "new_page", "route",
                        "set_viewport_size", "add_init_script", "goto",
                        "wait_for_load_state", "screenshot">>,
              exc |-> "none"]

\* super().reset(): the conversation state of the base agent afterwards
BaseReset == "fresh"

\* (mutant) reset goes to the default start page
ResetPageDefault(b, al, sp) == VisitPage(b, al, sp, DEFAULT_START_PAGE)

\* reset(): super().reset(), then _visit_page(self.start_page)
ResetPage(b, al, sp) == VisitPage(b, al, sp, sp)

Browser == [page |-> page, nPages |-> nPages, hist |-> hist, blocked |-> blocked,
            pageTop |-> pageTop, route |-> route]

SetBrowser(b) ==
    /\ page' = b.page
    /\ nPages' = b.nPages
    /\ hist' = b.hist
    /\ blocked' = b.blocked
    /\ pageTop' = b.pageTop
    /\ route' = b.route

\* the runs explored stay within the bounds
WithinBounds(b) == b.nPages <= MaxPages /\ Len(b.hist) <= MaxHist

-----------------------------------------------------------------------------
(* Inputs *)

Channels == {DEFAULT_CHANNEL, "chromium", "firefox", "msedge"}
DataDirs == {None, "/data"}
StartPageArgs == {NoneUrl, <<>>, SiteA}
AllowArgs == {AllowArg("callable", "accept_all", <<>>), AllowArg("callable", "reject_all", <<>>),
              AllowArg("list", "", <<SiteA>>), AllowArg("list", "", <<DEFAULT_START_PAGE, SiteB>>),
              AllowArg("list", "", <<>>)}

CtorArgs(ch, dd, sp, al) ==
    [browser_channel |-> ch, browser_data_dir |-> dd, start_page |-> sp,
     navigation_allow_list |-> al]

\* the configurations the turns are explored under
TurnConfigs ==
    {CtorArgs("chromium", None, NoneUrl, AllowArg("callable", "accept_all", <<>>)),
     CtorArgs("firefox", "/data", SiteA, AllowArg("callable", "accept_all", <<>>)),
     CtorArgs("chromium", None, SiteA, AllowArg("list", "", <<SiteA>>)),
     CtorArgs("chromium", None, NoneUrl, AllowArg("list", "", <<DEFAULT_START_PAGE, SiteB>>))}

U_a == <<"a">>
U_ab == <<"a", " ", "b">>
U_abouts == <<"a", "b", "o", "u", "t", ":", "a", " ", "b">>
U_httpa == <<"h", "t", "t", "p", ":", "/", "/", "a">>
U_sp == <<"a", "/", "b", " ", "c">>
UrlArgs == {SiteA, U_a, U_ab, U_abouts, U_httpa, U_sp}
Queries == {U_ab}
ElementIds == {"1", "2", "3", "4", "9"}
UnknownTools == {"open_tab"}
ToolNames == KnownTools \cup UnknownTools

Call(name, kind, url, id) == [name |-> name, kind |-> kind, url |-> url, id |-> id]

\* the tool calls the model may come back with first
FirstCalls ==
    {Call(n, k, NoneUrl, "None") : n \in ToolNames, k \in {"malformed", "null", "number", "empty"}}
    \cup {Call("visit_url", "object", u, "None") : u \in UrlArgs}
    \cup {Call("web_search", "object", q, "None") : q \in Queries}
    \cup {Call(n, "object", NoneUrl, i) :
            n \in {"click", "input_text", "scroll_element_up", "scroll_element_down"},
            i \in ElementIds}
    \cup {Call(n, "object", NoneUrl, "None") :
            n \in {"history_back", "page_up", "page_down", "answer_question", "summarize_page"}
                  \cup UnknownTools}

\* a second tool call in the same message
SecondCalls == {Call("history_back", "object", NoneUrl, "None")}

\* message.tool_calls
Messages ==
    {<<>>} \cup {<<c>> : c \in FirstCalls}
    \cup {<<c, d>> : c \in {x \in FirstCalls : x.kind = "object" /\ x.url \in {NoneUrl, SiteA}
                                                  /\ x.id \in {"None", "1"}},
                     d \in SecondCalls}

RequestUrls == {AboutBlank, DEFAULT_START_PAGE, SiteA, SiteB, SiteA \o <<"/", "b">>, <<"a">>}
ContentTypes == {CT_html, CT_HTML, CT_png, CT_xhtml, <<>>}

Idle(op, log, outcome, exc) == Record(op, <<>>, NoViewport, <<>>, log, outcome, exc, NoReply)

-----------------------------------------------------------------------------
(* Actions *)

SetAgent(a, args) ==
    /\ phase' = a.phase
    /\ cargs' = args
    /\ start_page' = a.start_page
    /\ allow' = a.allow
    /\ context' = a.context
    /\ SetBrowser(a.b)
    /\ base' = "fresh"
    /\ turn' = Idle("__init__", a.log, IF a.exc = "none" THEN "returned" ELSE "raised", a.exc)

NoArgs == CtorArgs("", "", NoneUrl, AllowArg("", "", <<>>))

\* the state is the agent a, constructed from the arguments args
AgentIs(a, args) ==
    /\ phase = a.phase
    /\ cargs = args
    /\ start_page = a.start_page
    /\ allow = a.allow
    /\ context = a.context
    /\ page = a.b.page
    /\ nPages = a.b.nPages
    /\ hist = a.b.hist
    /\ blocked = a.b.blocked
    /\ pageTop = a.b.pageTop
    /\ route = a.b.route
    /\ base = "fresh"
    /\ turn = Idle("__init__", a.log, IF a.exc = "none" THEN "returned" ELSE "raised", a.exc)

\* the agent as constructed from the arguments args
Constructed(args) ==
    AgentIs(Init__(args.browser_channel, args.browser_data_dir, args.start_page,
                   args.navigation_allow_list), args)

\* a turn: the agent is asked for a reply and the model answers with message m
GenerateSurferReply ==
    /\ phase = "ready"
    /\ \E m \in Messages :
          \E r \in {SurferReply(Browser, allow, start_page, m)} :
              /\ WithinBounds(r.b)
              /\ SetBrowser(r.b)
              /\ turn' = [r.turn EXCEPT !.before = Snap(Browser)]
    /\ base' = "used"
    /\ UNCHANGED <<phase, cargs, start_page, allow, context>>

\* reset()
Reset ==
    /\ phase = "ready"
    /\ \E r \in {ResetPage(Browser, allow, start_page)} :
           /\ WithinBounds(r.b)
           /\ SetBrowser(r.b)
           /\ turn' = [Idle("reset", <<"super_reset">> \o r.log, "returned", "none")
                          EXCEPT !.before = Snap(Browser)]
    /\ base' = BaseReset
    /\ UNCHANGED <<phase, cargs, start_page, allow, context>>

Init == \E args \in TurnConfigs : Constructed(args)

Next == GenerateSurferReply \/ Reset

Spec == Init /\ [][Next]_vars

-----------------------------------------------------------------------------
(* Construction and request interception on their own *)

InitCtor ==
    /\ phase = "new"
    /\ cargs = NoArgs
    /\ start_page = NoneUrl
    /\ allow = AllowArg("", "", <<>>)
    /\ context = "unset"
    /\ page = 0
    /\ nPages = 0
    /\ hist = <<>>
    /\ blocked = FALSE
    /\ pageTop = 0
    /\ route = NoRoute
    /\ base = "fresh"
    /\ turn = Idle("none", <<>>, "none", "none")

\* MultimodalWebSurferAgent(...)
Construct ==
    /\ phase = "new"
    /\ \E ch \in Channels, dd \in DataDirs, sp \in StartPageArgs, al \in AllowArgs :
          SetAgent(Init__(ch, dd, sp, al), CtorArgs(ch, dd, sp, al))

\* the held page issues a request and _route_handler intercepts it
RouteRequest ==
    /\ phase = "ready"
    /\ \E url \in RequestUrls, ctype \in ContentTypes :
          route' = RouteHandler(allow, start_page, url, ctype)
    /\ turn' = Idle("route", <<>>, "returned", "none")
    /\ UNCHANGED <<phase, cargs, start_page, allow, context, page, nPages, hist, blocked, pageTop, base>>

NextCtor == Construct \/ RouteRequest

SpecCtor == InitCtor /\ [][NextCtor]_vars

-----------------------------------------------------------------------------
(* Properties of a turn *)

IsTurn == turn.op = "generate_surfer_reply"

\* how often call e occurs in the calls of the operation
Count(log, e) == Cardinality({i \in DOMAIN log : log[i] = e})

\* the positions of call e
Positions(log, e) == {i \in DOMAIN log : log[i] = e}

\* the browser calls behind the tools: navigate, go back, scroll, click, fill, element scroll
BrowserActions == {"goto", "go_back", "scroll_by", "mouse_click", "focus", "fill", "press_enter",
                   "scroll_element"}

NoBrowserAction(log) == \A i \in DOMAIN log : log[i] \notin BrowserActions

\* the held page is the one the operation found, in the state it found it
PageUntouched ==
    /\ page = turn.before.page
    /\ hist = turn.before.hist
    /\ blocked = turn.before.blocked
    /\ pageTop = turn.before.pageTop

\* C1: in one call of generate_surfer_reply at most one tool is dispatched, and it is
\* the first tool call of the message; a message without tool calls executes no
\* browser action at all.
C1_OneToolPerTurn ==
    IsTurn =>
        /\ Count(turn.log, "dispatch") <= 1
        /\ \A i \in Positions(turn.log, "dispatch") :
              turn.tool_calls # <<>> /\ turn.log[i + 1] = turn.tool_calls[1].name
        /\ (turn.tool_calls = <<>> => NoBrowserAction(turn.log) /\ PageUntouched)
        /\ (Len(turn.tool_calls) > 1 /\ turn.tool_calls[1].name # "history_back"
                => Count(turn.log, "go_back") = 0)

\* a message carrying two tool calls was answered and its first call, a click, dispatched
C1_Witness ==
    /\ IsTurn
    /\ Len(turn.tool_calls) = 2
    /\ turn.tool_calls[1].name = "click"
    /\ Count(turn.log, "mouse_click") = 1
    /\ turn.outcome = "returned"

\* C2 as stated: every turn calls self.client.create exactly once, whatever the tool.
C2_CreateOncePerTurn == IsTurn => Count(turn.log, "create") = 1

\* the text _summarize_page would keep of the page the turn found
BufferBefore ==
    Budgeted(TextOf(turn.before.hist[Len(turn.before.hist)], turn.before.blocked), 0)

\* C2 amended: every turn calls self.client.create once for the tool choice; only
\* when the dispatched tool is summarize_page or answer_question and the page has
\* text to summarize does _summarize_page call it a second time, never more.
C2_CreateOnceOrTwice ==
    IsTurn =>
        /\ turn.log[4] = "create"
        /\ ("get_page_markdown" \in {turn.log[i] : i \in DOMAIN turn.log}
              => turn.tool_calls[1].name \in {"summarize_page", "answer_question"})
        /\ Count(turn.log, "create") =
              IF "get_page_markdown" \in {turn.log[i] : i \in DOMAIN turn.log}
                 /\ BufferBefore # <<>>
              THEN 2 ELSE 1

\* summarize_page ran on a page with text: the model was called twice
C2_Witness ==
    /\ IsTurn
    /\ turn.tool_calls # <<>>
    /\ turn.tool_calls[1].name = "summarize_page"
    /\ Count(turn.log, "create") = 2
    /\ turn.outcome = "returned"

\* the last screenshot of the turn was taken after every other call but the return,
\* the reply carries it, and it shows the held page as it is now
ScreenshotAfterDispatch ==
    LET shots == Positions(turn.log, "screenshot")
        last == CHOOSE i \in shots : \A j \in shots : j <= i
    IN  /\ turn.reply.kind = "mm"
        /\ turn.reply.image.at = last
        /\ last = Len(turn.log) - 1
        /\ turn.log[Len(turn.log)] = "return"
        /\ \A i \in DOMAIN turn.log :
              turn.log[i] \in BrowserActions \cup {"create", "dispatch", "json_loads"} => i < last
        /\ turn.reply.image.page = page
        /\ turn.reply.image.url = hist[Len(hist)]
        /\ turn.reply.image.pageTop = pageTop

\* the steps up to the dispatch come in the order: page state and screenshot for
\* the prompt, the model, then the dispatch and the browser calls
PromptModelDispatchOrder ==
    /\ SubSeq(turn.log, 1, 4) = <<"get_interactive_rects", "get_visual_viewport", "screenshot", "create">>
    /\ \A i \in DOMAIN turn.log :
          turn.log[i] \in BrowserActions \cup {"dispatch", "json_loads"} => i > 4
    /\ \A i \in Positions(turn.log, "dispatch") : \A j \in DOMAIN turn.log :
          turn.log[j] \in BrowserActions => j > i

\* C3 as stated: every turn that returns a reply went through prompt, model,
\* dispatch, browser call, new screenshot, return, and the reply carries the screenshot.
C3_EveryReplyHasNewScreenshot ==
    IsTurn /\ turn.outcome = "returned" => PromptModelDispatchOrder /\ ScreenshotAfterDispatch

\* C3 amended: a turn that returns without a ValueError in its dispatch went through
\* the steps in that order and its reply carries the screenshot taken after the
\* dispatch; a turn whose dispatch raised ValueError (unknown tool, no such element,
\* arguments that are not JSON) returns the error text as a plain string, with no
\* screenshot taken after the dispatch.
C3_ReplyScreenshotUnlessValueError ==
    IsTurn /\ turn.outcome = "returned" =>
        /\ PromptModelDispatchOrder
        /\ IF turn.exc = "ValueError"
           THEN /\ turn.reply.kind = "str"
                /\ turn.reply.image = NoShot
                /\ Positions(turn.log, "screenshot") = {3}
           ELSE ScreenshotAfterDispatch

\* a page_down was executed and the reply carries the screenshot of the scrolled page
C3_Witness ==
    /\ IsTurn
    /\ turn.outcome = "returned"
    /\ turn.exc = "none"
    /\ Count(turn.log, "scroll_by") = 1
    /\ turn.reply.image.pageTop > turn.before.pageTop
    /\ turn.reply.image.at > 4

UnknownToolCalled == IsTurn /\ turn.tool_calls # <<>> /\ turn.tool_calls[1].name \notin KnownTools

UnknownToolReply ==
    /\ turn.outcome = "returned"
    /\ turn.reply.kind = "str"
    /\ turn.reply.text = <<"Unknown tool", turn.tool_calls[1].name>>

\* C4 as stated: a first tool call naming a tool outside the fixed set executes no
\* browser action, leaves the page handle and state unchanged and returns
\* (True, "Unknown tool '<name>'") instead of raising.
C4_UnknownToolReported ==
    UnknownToolCalled => NoBrowserAction(turn.log) /\ PageUntouched /\ UnknownToolReply

\* C4 amended: such a call executes no browser action and leaves the page handle and
\* state unchanged; it returns (True, "Unknown tool '<name>'") when the arguments of
\* the call parse as a JSON object or null.  (Arguments that are not JSON return the
\* decoder's message instead, and a JSON number raises TypeError.)
C4_UnknownToolReportedWhenArgsParse ==
    UnknownToolCalled =>
        /\ NoBrowserAction(turn.log)
        /\ PageUntouched
        /\ (turn.tool_calls[1].kind \in {"object", "empty", "null"} => UnknownToolReply)
        /\ (turn.tool_calls[1].kind = "malformed"
              => turn.outcome = "returned" /\ turn.reply.text = <<"JSONDecodeError">>)
        /\ (turn.tool_calls[1].kind = "number" => turn.outcome = "raised" /\ turn.exc = "TypeError")

\* an unknown tool with well-formed arguments was called on a scrolled page
C4_Witness ==
    /\ UnknownToolCalled
    /\ turn.tool_calls[1].kind = "object"
    /\ UnknownToolReply
    /\ turn.before.pageTop > 0

InTools(name) == \E i \in DOMAIN turn.tools : turn.tools[i] = name

\* C5: page_up is offered exactly when pageTop > 5 and page_down exactly when
\* pageTop + height + 5 < scrollHeight; a page that fits in the viewport gets neither.
C5_PageToolsOffered ==
    IsTurn =>
        /\ InTools("page_up") <=> turn.viewport.pageTop > 5
        /\ InTools("page_down") <=>
              turn.viewport.pageTop + turn.viewport.height + 5 < turn.viewport.scrollHeight
        /\ (turn.viewport.scrollHeight <= turn.viewport.height
              => ~InTools("page_up") /\ ~InTools("page_down"))

\* a turn on a page scrolled by 5 pixels or less, where page_up is withheld
C5_Witness ==
    /\ IsTurn
    /\ turn.viewport.pageTop > 0
    /\ turn.viewport.pageTop <= 5
    /\ ~InTools("page_up")

-----------------------------------------------------------------------------
(* Properties of construction, reset and request interception *)

\* C6 as stated: with browser_data_dir None the constructor creates a new context,
\* with a directory a persistent one, and for every accepted browser_channel, the
\* default included, it ends with self._context set and self._page on the start page.
C6_ConstructionSucceeds ==
    turn.op = "__init__" /\ cargs.browser_channel \in {DEFAULT_CHANNEL, "chromium", "firefox"} =>
        /\ phase = "ready"
        /\ context = IF cargs.browser_data_dir = None THEN "new_context" ELSE "persistent"
        /\ page # 0
        /\ hist = <<start_page>>

\* C7: after reset() the page the agent held has been navigated to start_page, the
\* constructor's argument or DEFAULT_START_PAGE when none was given, and the base
\* agent's conversation state is reset.
C7_ResetVisitsStartPage ==
    turn.op = "reset" =>
        /\ start_page = IF cargs.start_page = NoneUrl THEN DEFAULT_START_PAGE ELSE cargs.start_page
        /\ page = turn.before.page
        /\ hist = Append(turn.before.hist, start_page)
        /\ pageTop = 0
        /\ base = "fresh"
        /\ Count(turn.log, "goto") = 1

\* reset() was called on a popup the agent had switched to, with a start page of its own
C7_Witness ==
    /\ turn.op = "reset"
    /\ page > 1
    /\ cargs.start_page # NoneUrl
    /\ turn.before.hist[1] # start_page

\* the allow list as the claim puts it: a list accepts the URLs that start with an entry
Accepted(url) ==
    IF allow.kind = "list"
    THEN \E i \in DOMAIN allow.entries :
            Len(allow.entries[i]) <= Len(url)
            /\ \A k \in 1..Len(allow.entries[i]) : url[k] = allow.entries[i][k]
    ELSE allow.fn = "accept_all"

\* C8: an intercepted request is continued unmodified exactly when its URL is
\* "about:blank" or the allow list accepts it; otherwise an HTML response is replaced
\* by the status-403 "Navigation Blocked" page linking to start_page and any other
\* response is passed through as fetched.
C8_RouteHandler ==
    turn.op = "route" =>
        LET ok == route.request = AboutBlank \/ Accepted(route.request)
            html == route.content_type \in {CT_html, CT_HTML, CT_xhtml}
        IN  /\ (route.calls = <<"continue_">> /\ route.delivered = "original") <=> ok
            /\ (~ok /\ html => /\ route.delivered = "blocked_page"
                                /\ route.status = 403
                                /\ route.link = start_page)
            /\ (~ok /\ ~html => route.delivered = "fetched" /\ route.calls = <<"fetch", "fulfill">>)

\* a request under a URL prefix of a list-valued allow list was continued
C8_Witness ==
    /\ turn.op = "route"
    /\ allow.kind = "list"
    /\ route.request = SiteA \o <<"/", "b">>
    /\ route.calls = <<"continue_">>

\* a rejected request with an upper-case HTML content type got the blocked page
C8_WitnessBlocked ==
    /\ turn.op = "route"
    /\ route.content_type = CT_HTML
    /\ route.delivered = "blocked_page"

-----------------------------------------------------------------------------
(* Properties of single tools *)

VisitUrlCalled ==
    IsTurn /\ turn.tool_calls # <<>> /\ turn.tool_calls[1].name = "visit_url"
    /\ turn.tool_calls[1].kind = "object"

SearchFor_a_b == <<"h", "t", "t", "p", "s", ":", "/", "/", "w", "w", "w", ".", "b", "i", "n", "g", ".", "c", "o", "m", "/", "s", "e", "a", "r", "c", "h", "?", "q", "=", "a", "+", "b", "&", "F", "O", "R", "M", "=", "Q", "B", "L", "H">>

SearchFor_a_slash_b_c == <<"h", "t", "t", "p", "s", ":", "/", "/", "w", "w", "w", ".", "b", "i", "n", "g", ".", "c", "o", "m", "/", "s", "e", "a", "r", "c", "h", "?", "q", "=", "a", "%", "2", "F", "b", "+", "c", "&", "F", "O", "R", "M", "=", "Q", "B", "L", "H">>

HasProtocol(u) ==
    \E p \in {P_https, P_http, P_file, P_about} : Len(p) <= Len(u) /\ SubSeq(u, 1, Len(p)) = p

\* C9: visit_url navigates to the argument unchanged when it starts with "https://",
\* "http://", "file://" or "about:"; otherwise to a Bing search for the URL-encoded
\* text when it contains a space; otherwise to "https://" followed by the argument;
\* and it issues exactly one navigation.
C9_VisitUrlAddress ==
    VisitUrlCalled =>
        LET u == turn.tool_calls[1].url
            target == hist[Len(hist)]
        IN  /\ turn.outcome = "returned"
            /\ Count(turn.log, "goto") = 1
            /\ hist = Append(turn.before.hist, target)
            /\ (HasProtocol(u) => target = u)
            /\ (~HasProtocol(u) /\ (\E i \in DOMAIN u : u[i] = " ")
                  => target = SearchPrefix \o quote_plus(u) \o SearchSuffix)
            /\ (~HasProtocol(u) /\ ~(\E i \in DOMAIN u : u[i] = " ") => target = P_https \o u)
            /\ (u = U_ab => target = SearchFor_a_b)
            /\ (u = U_sp => target = SearchFor_a_slash_b_c)
            /\ (u = U_a => target = SiteA)
            /\ (u \in {U_httpa, U_abouts, SiteA} => target = u)

\* visit_url was called with an argument that has a protocol and a space
C9_Witness ==
    /\ VisitUrlCalled
    /\ turn.tool_calls[1].url = U_abouts
    /\ hist[Len(hist)] = U_abouts

\* the element ids of the page the turn found
IdsBefore ==
    {e.id : e \in ElementsOf(turn.before.hist[Len(turn.before.hist)], turn.before.blocked, start_page)}

MissingElementCalled ==
    /\ IsTurn
    /\ turn.tool_calls # <<>>
    /\ turn.tool_calls[1].name \in {"click", "input_text"}
    /\ turn.tool_calls[1].kind = "object"
    /\ turn.tool_calls[1].id \notin IdsBefore

\* C10: click or input_text on an element id that no element of the page has performs
\* no mouse click, focus, fill or key press, keeps the page handle, and returns
\* (True, "No such element.") instead of raising.
C10_NoSuchElement ==
    MissingElementCalled =>
        /\ \A i \in DOMAIN turn.log : turn.log[i] \notin {"mouse_click", "focus", "fill", "press_enter"}
        /\ page = turn.before.page
        /\ PageUntouched
        /\ turn.outcome = "returned"
        /\ turn.reply.kind = "str"
        /\ turn.reply.text = <<"No such element.">>

\* input_text named an element id the page does not have
C10_Witness ==
    /\ MissingElementCalled
    /\ turn.tool_calls[1].name = "input_text"
    /\ turn.tool_calls[1].id = "9"
    /\ turn.before.hist[Len(turn.before.hist)] = SiteA
    /\ turn.reply.text = <<"No such element.">>

\* p is the integer part of x * 100 / s
IsPercent(p, x, s) == p * s <= x * 100 /\ x * 100 < (p + 1) * s

\* the viewport the reply of the turn describes: that of the page the turn left
ViewportAfter ==
    [pageTop |-> pageTop, height |-> VIEWPORT_HEIGHT,
     scrollHeight |-> ScrollHeightOf(hist[Len(hist)], blocked)]

\* the turn returned the description of the viewport
ViewportNarrated == IsTurn /\ turn.outcome = "returned" /\ turn.reply.kind = "mm"

\* C11: the reply narrates percent_visible = floor(height*100/scrollHeight) and, with
\* percent_scrolled = floor(pageTop*100/scrollHeight), the position "at the top of the page"
\* when percent_scrolled < 1, else "at the bottom of the page" when percent_scrolled +
\* percent_visible >= 99, else "<percent_scrolled>% down from the top of the page"; it is
\* one of the three, and a page that fits in the viewport is reported as at the top.
C11_ViewportPosition ==
    ViewportNarrated =>
        LET vp == ViewportAfter
            pv == turn.reply.percent_visible
            pos == turn.reply.position
        IN  /\ vp.scrollHeight > 0
            /\ IsPercent(pv, vp.height, vp.scrollHeight)
            /\ \E ps \in 0..100 :
                  /\ IsPercent(ps, vp.pageTop, vp.scrollHeight)
                  /\ (ps < 1 => pos = [text |-> "at the top of the page", percent |-> 0])
                  /\ (ps >= 1 /\ ps + pv >= 99
                        => pos = [text |-> "at the bottom of the page", percent |-> 0])
                  /\ (ps >= 1 /\ ps + pv < 99
                        => pos = [text |-> "% down from the top of the page", percent |-> ps])
            /\ pos.text \in {"at the top of the page", "at the bottom of the page",
                              "% down from the top of the page"}
            /\ (vp.scrollHeight <= vp.height => pos.text = "at the top of the page")

\* the reply says "42% down from the top of the page" with 45% of the page visible
C11_Witness ==
    /\ ViewportNarrated
    /\ pageTop = 850
    /\ turn.reply.percent_visible = 45
    /\ turn.reply.position = [text |-> "% down from the top of the page", percent |-> 42]

\* the reply says "at the bottom of the page" at the end of the 2000-pixel page
C11_WitnessBottom ==
    /\ ViewportNarrated
    /\ pageTop = 1100
    /\ turn.reply.position.text = "at the bottom of the page"

\* the tools offered in the turn, page_up and page_down left out
OfferedApartFromPaging ==
    {turn.tools[i] : i \in DOMAIN turn.tools} \ {"page_up", "page_down"}

\* an element that add_set_of_mark reported as visible to the turn is vertically scrollable
ScrollableVisibleBefore ==
    \E e \in VisibleRects(turn.before, start_page) : e.v_scrollable

\* C12: apart from page_up and page_down, the tools offered in a turn are the six tools
\* visit_url, history_back, click, input_text, summarize_page and answer_question, plus
\* web_search exactly when the allow list accepts "https://www.bing.com/", plus
\* scroll_element_up and scroll_element_down exactly when a visible annotated element is
\* vertically scrollable; no tool is offered twice.
C12_ToolsOffered ==
    IsTurn =>
        /\ OfferedApartFromPaging =
              {"visit_url", "history_back", "click", "input_text", "summarize_page",
               "answer_question"}
              \cup (IF Accepted(DEFAULT_START_PAGE) THEN {"web_search"} ELSE {})
              \cup (IF ScrollableVisibleBefore
                    THEN {"scroll_element_up", "scroll_element_down"} ELSE {})
        /\ \A i, j \in DOMAIN turn.tools : turn.tools[i] = turn.tools[j] => i = j

\* a turn on a page that shows a scrollable element, under an allow list that rejects Bing:
\* the scroll tools are offered and web_search is not
C12_Witness ==
    /\ IsTurn
    /\ ScrollableVisibleBefore
    /\ ~Accepted(DEFAULT_START_PAGE)
    /\ InTools("scroll_element_up")
    /\ InTools("scroll_element_down")
    /\ ~InTools("web_search")

\* a turn on a page whose only scrollable element is outside the viewport, under an allow
\* list that accepts Bing: web_search is offered and the scroll tools are not
C12_WitnessHidden ==
    /\ IsTurn
    /\ turn.before.hist[Len(turn.before.hist)] = SiteA
    /\ ~turn.before.blocked
    /\ turn.before.pageTop = 1100
    /\ InTools("web_search")
    /\ ~InTools("scroll_element_up")

\* the tool whose branch the turn ran to its end: the name dispatched on, when it is one
\* of the known tools and the branch did not raise
Executed(name) ==
    /\ IsTurn
    /\ turn.exc = "none"
    /\ name \in KnownTools
    /\ \E i \in DOMAIN turn.log :
          turn.log[i] = "dispatch" /\ i + 1 \in DOMAIN turn.log /\ turn.log[i + 1] = name

\* C13 as stated: the tool executed in a turn is one of the tools offered in that turn;
\* page_up is never executed when pageTop <= 5, page_down never when the viewport reaches
\* the end of the page, web_search never when the allow list rejects Bing, and
\* scroll_element_up/down never when no visible element is scrollable.
C13_ExecutedToolWasOffered ==
    /\ \A name \in KnownTools : Executed(name) => InTools(name)
    /\ (Executed("page_up") => turn.viewport.pageTop > 5)
    /\ (Executed("page_down")
          => turn.viewport.pageTop + turn.viewport.height + 5 < turn.viewport.scrollHeight)
    /\ (Executed("web_search") => Accepted(DEFAULT_START_PAGE))
    /\ (Executed("scroll_element_up") \/ Executed("scroll_element_down")
          => ScrollableVisibleBefore)

====
